---- MODULE Spec2Model ----
(***************************************************************************)
(* Model of tinyauth's internal/auth/auth.go: the login rate limiter       *)
(* (LoginAttempts under LoginMutex), credential verification against the   *)
(* local user list and the shared LDAP client, and the session cookie.     *)
(*                                                                         *)
(* Time is counted in ticks; TicksPerSec ticks make one second, so that    *)
(* the conversions of the code to whole seconds (int(d.Seconds()),         *)
(* t.Unix()) truncate as they do in Go.                                    *)
(***************************************************************************)
EXTENDS Integers, Sequences, FiniteSets, TLC

\* ------------------------------------------------------------------ bounds
TicksPerSec == 2
MaxTime == 4
MaxRetriesCfg == 2
MaxTimeoutCfg == 1
MaxFailures == 3
MaxSessionCfg == 2
MaxList == 2
MaxStr == 2
MaxName == 1

\* ------------------------------------------------------- fixed vocabulary
Procs == {"r1", "r2"}
Identifiers == {"alice", "bob"}
LoginNames == {"alice"}
LoginPasswords == {"local-pw", "dir-pw"}
Usernames == {"alice", "bob", "carol"}
Passwords == {"local-pw", "dir-pw", "wrong"}
Unlocked == "unlocked"
NoAttempt == [exists |-> FALSE]
\* time.Time{}: the zero time, before every instant the clock can show
ZeroTime == -1
NoRet == [op |-> "none"]
NoLogin == [phase |-> "none"]
NoRequest == [kind |-> "none"]

\* bcrypt hash of a password, as stored in types.User.Password
Hash(password) == <<"bcrypt", password>>

\* types.User{}: the empty user; its Password is the empty string, no valid hash
EmptyUser == [Username |-> "", Password |-> <<>>]
AliceUser == [Username |-> "alice", Password |-> Hash("local-pw")]

\* types.UserSearch{}: the empty search result
EmptySearch == [Username |-> "", Type |-> ""]

\* the directory: the entries it holds, their distinguished names and password
DirectoryEntries == {"alice", "bob"}
DN == [u \in DirectoryEntries |-> IF u = "alice" THEN "cn=alice" ELSE "cn=bob"]
UserDNs == {DN[u] : u \in DirectoryEntries}
DirectoryPassword == "dir-pw"
\* auth.LDAP.Config.BindDN: the service account
BindDN == "cn=service"
Anonymous == "anonymous"

VARIABLES
  Config,         \* auth.Config: LoginMaxRetries, LoginTimeout, SessionExpiry, Users
  LDAP,           \* auth.LDAP: "nil" or "client"
  now,            \* the monotonic clock read by time.Now(), in ticks
  LoginAttempts,  \* auth.LoginAttempts: identifier -> *LoginAttempt
  LoginMutex,     \* auth.LoginMutex: Unlocked, or the request holding Lock()
  ldapBound,      \* identity the shared LDAP connection is bound as
  pc,             \* position of every request inside the call it is in
  frame,          \* locals of the call a request is in
  login,          \* position and locals of a request inside the login handler
  ret,            \* the value returned by the call that just returned
  failures,       \* history: failed attempts recorded since the last success
  failedAt,       \* history: clock of the last recorded failure
  session,        \* session.Values of the client's cookie: key -> value
  created,        \* history: the record and expiry of the last session created
  request         \* the request and labels an access-policy check is made for

vars == <<Config, LDAP, now, LoginAttempts, LoginMutex, ldapBound, pc, frame,
          login, ret, failures, failedAt, session, created, request>>

NoFrame == [identifier |-> "", n |-> 0, search |-> EmptySearch, binds |-> <<>>,
            before |-> NoAttempt]

\* time.Duration(seconds) * time.Second, in ticks
Seconds(s) == s * TicksPerSec

\* int(d.Seconds()) for a duration d >= 0 given in ticks: truncation
WholeSeconds(d) == d \div TicksPerSec

\* line 178: rate limiting is not configured
NotConfigured == Config.LoginMaxRetries <= 0 \/ Config.LoginTimeout <= 0

\* t.After(u)
After(t, u) == t > u

\* -------------------------------------------------------- IsAccountLocked
\* a lock test with the comparison turned around
IsAccountLockedAt_Before(identifier) ==
  IF NotConfigured THEN [locked |-> FALSE, remaining |-> 0]
  ELSE IF LoginAttempts[identifier] = NoAttempt THEN [locked |-> FALSE, remaining |-> 0]
  ELSE IF After(now, LoginAttempts[identifier].LockedUntil)
          /\ LoginAttempts[identifier].LockedUntil # ZeroTime
       THEN [locked |-> TRUE, remaining |-> 0]
       ELSE [locked |-> FALSE, remaining |-> 0]

\* lines 177-196, evaluated under RLock at the instant `now`
IsAccountLockedAt(identifier) ==
  IF NotConfigured THEN [locked |-> FALSE, remaining |-> 0]
  ELSE IF LoginAttempts[identifier] = NoAttempt THEN [locked |-> FALSE, remaining |-> 0]
  ELSE IF After(LoginAttempts[identifier].LockedUntil, now)
       THEN [locked |-> TRUE,
             remaining |-> WholeSeconds(LoginAttempts[identifier].LockedUntil - now)]
       ELSE [locked |-> FALSE, remaining |-> 0]

\* line 174: RLock() is granted when no request holds Lock()
RLockGranted == LoginMutex = Unlocked

IsAccountLocked(p, identifier) ==
  /\ pc[p] = "idle"
  /\ RLockGranted
  /\ ret' = [op |-> "IsAccountLocked", identifier |-> identifier,
             locked |-> IsAccountLockedAt(identifier).locked,
             remaining |-> IsAccountLockedAt(identifier).remaining]
  /\ UNCHANGED <<Config, LDAP, request, session, created, now, LoginAttempts, LoginMutex, ldapBound, pc, frame, failures, failedAt>>

\* ----------------------------------------------------- RecordLoginAttempt
\* a skip that needs both settings to be non-positive
SkipRecord_Both == Config.LoginMaxRetries <= 0 /\ Config.LoginTimeout <= 0

\* line 202: skip if rate limiting is not configured
SkipRecord == Config.LoginMaxRetries <= 0 \/ Config.LoginTimeout <= 0

\* a record made without taking the mutex
LockGranted_Always == TRUE

\* line 206: Lock() is granted when no other request holds the mutex
LockGranted == LoginMutex = Unlocked

\* lines 210-214: the current record, or a new zero-valued one
NewAttempt == [exists |-> TRUE, FailedAttempts |-> 0,
               LastAttempt |-> ZeroTime, LockedUntil |-> ZeroTime]

\* a lookup that hands out the record of another identifier instead of a new one
GetOrCreate_Shared(identifier) ==
  IF LoginAttempts[identifier] # NoAttempt THEN LoginAttempts[identifier]
  ELSE IF \E j \in Identifiers : LoginAttempts[j] # NoAttempt
       THEN LoginAttempts[CHOOSE j \in Identifiers : LoginAttempts[j] # NoAttempt]
       ELSE NewAttempt

GetOrCreate(identifier) ==
  IF LoginAttempts[identifier] = NoAttempt THEN NewAttempt ELSE LoginAttempts[identifier]

\* a reset that forgets to clear the lock
ResetAttempt_KeepLock(attempt) == [attempt EXCEPT !.FailedAttempts = 0]

\* lines 220-224: a successful login resets the record
ResetAttempt(attempt) ==
  [attempt EXCEPT !.FailedAttempts = 0, !.LockedUntil = ZeroTime]

\* a threshold that locks only when the count is exactly the maximum
StoreFailure_OnlyAtMax(attempt, n) ==
  IF n = Config.LoginMaxRetries
  THEN [attempt EXCEPT !.FailedAttempts = n,
                       !.LockedUntil = now + Seconds(Config.LoginTimeout)]
  ELSE [attempt EXCEPT !.FailedAttempts = n]

\* lines 227-233: store the incremented count n, lock when the maximum is reached
StoreFailure(attempt, n) ==
  IF n >= Config.LoginMaxRetries
  THEN [attempt EXCEPT !.FailedAttempts = n,
                       !.LockedUntil = now + Seconds(Config.LoginTimeout)]
  ELSE [attempt EXCEPT !.FailedAttempts = n]

\* the return of RecordLoginAttempt, with what the call found: whether the
\* identifier had a record, and whether its lock was in force
RecordRet(identifier, success, before) ==
  [op |-> "RecordLoginAttempt", identifier |-> identifier, success |-> success,
   found |-> before # NoAttempt,
   foundLocked |-> before # NoAttempt /\ before.LockedUntil > now]

\* lines 200-224: the call up to the read of attempt.FailedAttempts;
\* a disabled limiter returns at once, a success returns after the reset
RecordLoginAttempt(p, identifier, success) ==
  /\ pc[p] = "idle"
  /\ IF SkipRecord
     THEN /\ ret' = RecordRet(identifier, success, LoginAttempts[identifier])
          /\ UNCHANGED <<LoginAttempts, LoginMutex, pc, frame, failures, failedAt>>
     ELSE /\ LockGranted
          /\ LET touched == [GetOrCreate(identifier) EXCEPT !.LastAttempt = now]
             IN IF success
                THEN /\ LoginAttempts' = [LoginAttempts EXCEPT ![identifier] = ResetAttempt(touched)]
                     /\ failures' = [failures EXCEPT ![identifier] = 0]
                     /\ ret' = RecordRet(identifier, success, LoginAttempts[identifier])
                     /\ UNCHANGED <<LoginMutex, pc, frame, failedAt>>
                ELSE /\ failures[identifier] < MaxFailures
                     /\ LoginAttempts' = [LoginAttempts EXCEPT ![identifier] = touched]
                     /\ LoginMutex' = p
                     /\ pc' = [pc EXCEPT ![p] = "increment"]
                     /\ frame' = [frame EXCEPT ![p] = [NoFrame EXCEPT !.identifier = identifier,
                                                               !.n = touched.FailedAttempts,
                                                               !.before = LoginAttempts[identifier]]]
                     /\ ret' = NoRet
                     /\ UNCHANGED <<failures, failedAt>>
  /\ UNCHANGED <<Config, LDAP, request, session, created, now, ldapBound>>

\* lines 227-234: attempt.FailedAttempts++ stores the count read, plus one;
\* then the threshold check and the deferred Unlock()
RecordLoginAttemptIncrement(p) ==
  /\ pc[p] = "increment"
  /\ LET identifier == frame[p].identifier
     IN /\ LoginAttempts' = [LoginAttempts EXCEPT ![identifier] =
                               StoreFailure(LoginAttempts[identifier], frame[p].n + 1)]
        /\ failures' = [failures EXCEPT ![identifier] = @ + 1]
        /\ failedAt' = [failedAt EXCEPT ![identifier] = now]
        /\ ret' = RecordRet(identifier, FALSE, frame[p].before)
  /\ LoginMutex' = Unlocked
  /\ pc' = [pc EXCEPT ![p] = "idle"]
  /\ frame' = [frame EXCEPT ![p] = NoFrame]
  /\ UNCHANGED <<Config, LDAP, request, session, created, now, ldapBound>>

\* ------------------------------------------------------------ local users
\* lines 152-165: the first user of Config.Users with that name, or the empty user
GetLocalUser(username) ==
  IF \E k \in 1 .. Len(Config.Users) : Config.Users[k].Username = username
  THEN Config.Users[CHOOSE k \in 1 .. Len(Config.Users) :
                      /\ Config.Users[k].Username = username
                      /\ \A j \in 1 .. (k - 1) : Config.Users[j].Username # username]
  ELSE EmptyUser

\* lines 167-170: bcrypt.CompareHashAndPassword(user.Password, password) == nil
CheckPassword(user, password) == user.Password = Hash(password)

\* ------------------------------------------------------------ LDAP client
\* ldap.LDAP.Bind: the server accepts the service account with its configured
\* password and a directory entry with the directory password, when reachable
LdapBindOk(dn, password, network) ==
  /\ network
  /\ \/ dn = BindDN /\ password = "service-pw"
     \/ dn \in UserDNs /\ password = DirectoryPassword

\* identities the connection can have after Bind(dn, ...): dn after a success;
\* after a failure the old identity or none, as the client library decides
LdapBoundAfter(dn, ok) == IF ok THEN {dn} ELSE {ldapBound, Anonymous}

\* ldap.LDAP.Search: the distinguished name of the entry, or an error
LdapSearch(username, network) ==
  IF network /\ username \in DirectoryEntries
  THEN [err |-> FALSE, userDN |-> DN[username]]
  ELSE [err |-> TRUE, userDN |-> ""]

\* ------------------------------------------------------------- SearchUser
\* a search that asks the directory before it looks at the local users
SearchResult_DirectoryFirst(username, network) ==
  IF LDAP # "nil" /\ ~LdapSearch(username, network).err
  THEN [queried |-> TRUE, err |-> FALSE,
        result |-> [Username |-> LdapSearch(username, network).userDN, Type |-> "ldap"]]
  ELSE IF GetLocalUser(username).Username # ""
  THEN [queried |-> LDAP # "nil", err |-> LDAP # "nil",
        result |-> [Username |-> username, Type |-> "local"]]
  ELSE [queried |-> LDAP # "nil", err |-> LDAP # "nil", result |-> EmptySearch]

\* lines 78-105: the result, whether LDAP.Search was called and whether it failed
SearchResult(username, network) ==
  IF GetLocalUser(username).Username # ""
  THEN [queried |-> FALSE, err |-> FALSE,
        result |-> [Username |-> username, Type |-> "local"]]
  ELSE IF LDAP # "nil"
  THEN IF LdapSearch(username, network).err
       THEN [queried |-> TRUE, err |-> TRUE, result |-> EmptySearch]
       ELSE [queried |-> TRUE, err |-> FALSE,
             result |-> [Username |-> LdapSearch(username, network).userDN,
                         Type |-> "ldap"]]
  ELSE [queried |-> FALSE, err |-> FALSE, result |-> EmptySearch]

\* lines 74-106
SearchUser(p, username) ==
  /\ pc[p] = "idle"
  /\ \E network \in BOOLEAN :
       LET found == SearchResult(username, network)
       IN ret' = IF found.queried
                 THEN [op |-> "SearchUser", username |-> username, queried |-> TRUE,
                       err |-> found.err, boundAs |-> ldapBound, result |-> found.result]
                 ELSE [op |-> "SearchUser", username |-> username, queried |-> FALSE,
                       err |-> found.err, result |-> found.result]
  /\ UNCHANGED <<Config, LDAP, request, session, created, now, LoginAttempts, LoginMutex, ldapBound, pc, frame,
                 failures, failedAt>>

\* ------------------------------------------------------------- VerifyUser
\* a verification that ignores the failure of the re-bind
RebindResult_Ignored(rebindOk) == TRUE

\* lines 130-140: the result of an LDAP verification whose user bind succeeded,
\* given whether the re-bind with the service account succeeded
RebindResult(rebindOk) == IF ~rebindOk THEN FALSE ELSE TRUE

VerifyRet(search, password, result, binds) ==
  [op |-> "VerifyUser", search |-> search, password |-> password,
   result |-> result, binds |-> binds]

\* lines 108-127 and 142-149: the call up to the return of the user bind
VerifyUser(p, search, password) ==
  /\ pc[p] = "idle"
  /\ IF search.Type = "local"
     THEN /\ ret' = VerifyRet(search, password,
                              CheckPassword(GetLocalUser(search.Username), password), <<>>)
          /\ UNCHANGED <<ldapBound, pc, frame>>
     ELSE IF search.Type = "ldap" /\ LDAP # "nil"
     THEN \E network \in BOOLEAN :
            LET ok == LdapBindOk(search.Username, password, network)
                binds == <<[dn |-> search.Username, ok |-> ok]>>
            IN /\ ldapBound' \in LdapBoundAfter(search.Username, ok)
               /\ IF ok
                  THEN /\ pc' = [pc EXCEPT ![p] = "rebind"]
                       /\ frame' = [frame EXCEPT ![p] =
                                      [NoFrame EXCEPT !.search = search,
                                                      !.identifier = password,
                                                      !.binds = binds]]
                       /\ ret' = NoRet
                  ELSE /\ ret' = VerifyRet(search, password, FALSE, binds)
                       /\ UNCHANGED <<pc, frame>>
     ELSE /\ ret' = VerifyRet(search, password, FALSE, <<>>)
          /\ UNCHANGED <<ldapBound, pc, frame>>
  /\ UNCHANGED <<Config, LDAP, request, session, created, now, LoginAttempts, LoginMutex, failures, failedAt>>

\* lines 129-140: the re-bind with the service account and the return
VerifyUserRebind(p) ==
  /\ pc[p] = "rebind"
  /\ \E network \in BOOLEAN :
       LET ok == LdapBindOk(BindDN, "service-pw", network)
       IN /\ ldapBound' \in LdapBoundAfter(BindDN, ok)
          /\ ret' = VerifyRet(frame[p].search, frame[p].identifier, RebindResult(ok),
                              Append(frame[p].binds, [dn |-> BindDN, ok |-> ok]))
  /\ pc' = [pc EXCEPT ![p] = "idle"]
  /\ frame' = [frame EXCEPT ![p] = NoFrame]
  /\ UNCHANGED <<Config, LDAP, request, session, created, now, LoginAttempts, LoginMutex, failures, failedAt>>

\* --------------------------------------------------------- session cookie
\* `session` is the cookie of the one client: the session.Values it decodes
\* to, or Undecodable when Store.Get cannot decode it.
\* session.Values of a request without a cookie, and after DeleteSessionCookie
EmptyValues == [k \in {} |-> ""]
\* a cookie that Store.Get rejects (corrupt, or signed with another secret)
Undecodable == [k \in {"undecodable"} |-> TRUE]

\* lines 51-72: Store.Get; on an error the cookie is cleared (line 59) and
\* Store.Get is tried again, retryOk telling whether that second call succeeds;
\* a session obtained after an error is a new one, without values
GetSession(cookie, retryOk) ==
  [err |-> cookie = Undecodable /\ ~retryOk,
   unreadable |-> cookie = Undecodable,
   values |-> IF cookie = Undecodable THEN EmptyValues ELSE cookie]
SessionKeys == {"username", "name", "email", "provider", "expiry", "totpPending",
                "oauthGroups"}
\* types.SessionCookie{}: the empty cookie
EmptyCookie == [Username |-> "", Name |-> "", Email |-> "", Provider |-> "",
                TotpPending |-> FALSE, OAuthGroups |-> ""]
NoCreated == [exists |-> FALSE]
\* line 256: a session waiting for its second factor lives one hour
TotpExpiry == 3600

\* t.Unix(): whole seconds of the clock value t
Unix(t) == t \div TicksPerSec

SessionData ==
  {EmptyCookie,
   [Username |-> "alice", Name |-> "Alice", Email |-> "alice@example.com",
    Provider |-> "username", TotpPending |-> FALSE, OAuthGroups |-> ""],
   [Username |-> "alice", Name |-> "Alice", Email |-> "alice@example.com",
    Provider |-> "username", TotpPending |-> TRUE, OAuthGroups |-> ""],
   [Username |-> "bob", Name |-> "Bob", Email |-> "bob@example.com",
    Provider |-> "generic", TotpPending |-> FALSE, OAuthGroups |-> "admins,devs"]}

\* an expiry that ignores the pending second factor
SessionExpiry_NoTotp(data) == Config.SessionExpiry

\* lines 252-259
SessionExpiry(data) == IF data.TotpPending THEN TotpExpiry ELSE Config.SessionExpiry

\* a copy that stores the username under "name"
SetValues_NameFromUsername(values, data) ==
  [k \in (DOMAIN values) \cup SessionKeys |->
     IF k = "username" THEN data.Username
     ELSE IF k = "name" THEN data.Username
     ELSE IF k = "email" THEN data.Email
     ELSE IF k = "provider" THEN data.Provider
     ELSE IF k = "expiry" THEN Unix(now + Seconds(SessionExpiry(data)))
     ELSE IF k = "totpPending" THEN data.TotpPending
     ELSE IF k = "oauthGroups" THEN data.OAuthGroups
     ELSE values[k]]

\* lines 261-268: the values written over session.Values
SetValues(values, data) ==
  [k \in (DOMAIN values) \cup SessionKeys |->
     IF k = "username" THEN data.Username
     ELSE IF k = "name" THEN data.Name
     ELSE IF k = "email" THEN data.Email
     ELSE IF k = "provider" THEN data.Provider
     ELSE IF k = "expiry" THEN Unix(now + Seconds(SessionExpiry(data)))
     ELSE IF k = "totpPending" THEN data.TotpPending
     ELSE IF k = "oauthGroups" THEN data.OAuthGroups
     ELSE values[k]]

\* lines 240-279
CreateSessionCookie(data) ==
  /\ \E retryOk \in BOOLEAN :
       LET got == GetSession(session, retryOk)
       IN IF got.err
          THEN /\ session' = EmptyValues
               /\ created' = NoCreated
               /\ ret' = [op |-> "CreateSessionCookie", err |-> TRUE, data |-> data]
          ELSE /\ session' = SetValues(got.values, data)
               /\ created' = [exists |-> TRUE, data |-> data,
                              expiry |-> session'["expiry"],
                              replaced |-> /\ got.values # EmptyValues
                                           /\ got.values["username"] # data.Username]
               /\ ret' = [op |-> "CreateSessionCookie", err |-> FALSE, data |-> data]
  /\ UNCHANGED <<Config, LDAP, request, now, LoginAttempts, LoginMutex, ldapBound, pc, frame,
                 login, failures, failedAt>>

\* lines 291-294: every value is deleted
DeleteValues(values) == [k \in {} |-> values[k]]

\* lines 281-305
DeleteSessionCookie ==
  /\ \E retryOk \in BOOLEAN :
       LET got == GetSession(session, retryOk)
       IN /\ session' = IF got.err THEN EmptyValues ELSE DeleteValues(got.values)
          /\ ret' = [op |-> "DeleteSessionCookie", err |-> got.err]
  /\ created' = NoCreated
  /\ UNCHANGED <<Config, LDAP, request, now, LoginAttempts, LoginMutex, ldapBound, pc, frame,
                 login, failures, failedAt>>

\* line 328: every value is present with its type
ValuesOk(values) == SessionKeys \subseteq DOMAIN values

\* line 339: the cookie has expired
Expired(expiry) == Unix(now) > expiry

\* lines 352-359
CookieOf(values) ==
  [Username |-> values["username"], Name |-> values["name"], Email |-> values["email"],
   Provider |-> values["provider"], TotpPending |-> values["totpPending"],
   OAuthGroups |-> values["oauthGroups"]]

\* lines 307-360
GetSessionCookie ==
  /\ \E retryOk \in BOOLEAN :
       LET got == GetSession(session, retryOk)
       IN IF got.err
          THEN /\ session' = EmptyValues
               /\ ret' = [op |-> "GetSessionCookie", empty |-> TRUE,
                          cookie |-> EmptyCookie, err |-> TRUE, decoded |-> FALSE,
                          unreadable |-> TRUE]
          ELSE IF ~ValuesOk(got.values)
          THEN /\ session' = DeleteValues(got.values)
               /\ ret' = [op |-> "GetSessionCookie", empty |-> TRUE,
                          cookie |-> EmptyCookie, err |-> FALSE, decoded |-> FALSE,
                          unreadable |-> got.unreadable]
          ELSE IF Expired(got.values["expiry"])
          THEN /\ session' = DeleteValues(got.values)
               /\ ret' = [op |-> "GetSessionCookie", empty |-> TRUE,
                          cookie |-> EmptyCookie, err |-> FALSE, decoded |-> TRUE,
                          unreadable |-> FALSE, expiry |-> got.values["expiry"]]
          ELSE /\ session' = session
               /\ ret' = [op |-> "GetSessionCookie", empty |-> FALSE,
                          cookie |-> CookieOf(got.values), err |-> FALSE,
                          decoded |-> TRUE, unreadable |-> FALSE,
                          expiry |-> got.values["expiry"]]
  /\ UNCHANGED <<Config, LDAP, request, now, LoginAttempts, LoginMutex, ldapBound, pc, frame,
                 login, failures, failedAt, created>>

\* the client comes back with a cookie the store cannot decode
PresentUndecodable ==
  /\ session # Undecodable
  /\ session' = Undecodable
  /\ created' = NoCreated
  /\ ret' = NoRet
  /\ UNCHANGED <<Config, LDAP, request, now, LoginAttempts, LoginMutex, ldapBound, pc, frame,
                 login, failures, failedAt>>

\* ------------------------------------------------------------------ clock
Tick ==
  /\ now < MaxTime
  /\ now' = now + 1
  /\ ret' = NoRet
  /\ UNCHANGED <<Config, LDAP, request, session, created, LoginAttempts, LoginMutex, ldapBound, pc, frame, login,
                 failures, failedAt>>

\* ---------------------------------------------------------- login handler
\* the lock is in force for the identifier: lockedUntil > now
LockInForce(identifier) ==
  /\ LoginAttempts[identifier] # NoAttempt
  /\ LoginAttempts[identifier].LockedUntil > now

\* a request outside the login handler calls the engine directly
Direct(p) == login[p] = NoLogin /\ UNCHANGED login

\* the handler starts: the rate limiter gates the attempt
LoginHandler(p, username, password) ==
  /\ login[p] = NoLogin
  /\ IsAccountLocked(p, username)
  /\ login' = [login EXCEPT ![p] =
                 [phase |-> IF ret'.locked THEN "respond" ELSE "search",
                  username |-> username, password |-> password,
                  arrivedLocked |-> LockInForce(username),
                  search |-> EmptySearch, ok |-> FALSE]]

LoginSearch(p) ==
  /\ login[p].phase = "search"
  /\ SearchUser(p, login[p].username)
  /\ login' = [login EXCEPT ![p].search = ret'.result,
                            ![p].phase = IF ret'.result.Type = "" THEN "record" ELSE "verify"]

LoginVerify(p) ==
  /\ login[p].phase = "verify"
  /\ VerifyUser(p, login[p].search, login[p].password)
  /\ login' = IF pc'[p] = "rebind"
              THEN [login EXCEPT ![p].phase = "rebind"]
              ELSE [login EXCEPT ![p].ok = ret'.result, ![p].phase = "record"]

LoginVerifyRebind(p) ==
  /\ login[p].phase = "rebind"
  /\ VerifyUserRebind(p)
  /\ login' = [login EXCEPT ![p].ok = ret'.result, ![p].phase = "record"]

LoginRecord(p) ==
  /\ login[p].phase = "record"
  /\ RecordLoginAttempt(p, login[p].username, login[p].ok)
  /\ login' = [login EXCEPT ![p].phase = IF pc'[p] = "increment" THEN "increment"
                                                                 ELSE "respond"]

LoginRecordIncrement(p) ==
  /\ login[p].phase = "increment"
  /\ RecordLoginAttemptIncrement(p)
  /\ login' = [login EXCEPT ![p].phase = "respond"]

LoginRespond(p) ==
  /\ login[p].phase = "respond"
  /\ ret' = [op |-> "LoginHandler", username |-> login[p].username,
             password |-> login[p].password,
             arrivedLocked |-> login[p].arrivedLocked, granted |-> login[p].ok]
  /\ login' = [login EXCEPT ![p] = NoLogin]
  /\ UNCHANGED <<Config, LDAP, request, session, created, now, LoginAttempts, LoginMutex, ldapBound, pc, frame,
                 failures, failedAt>>

\* ---------------------------------------------------------- access policy
\* every policy check reads the request and leaves the engine as it is
PolicyFrame ==
  UNCHANGED <<Config, LDAP, request, now, LoginAttempts, LoginMutex, ldapBound, pc,
              frame, login, failures, failedAt, session, created>>

\* client addresses, and the entries of labels.IP.Block and labels.IP.Allow:
\* a single address, a CIDR block (base address and prefix length, of
\* two-bit addresses), or an entry that does not parse
Addresses == 0 .. 3
FilterEntries ==
  {[kind |-> "ip", addr |-> 0, len |-> 2],
   [kind |-> "ip", addr |-> 1, len |-> 2],
   [kind |-> "cidr", addr |-> 0, len |-> 1],
   [kind |-> "cidr", addr |-> 0, len |-> 0],
   [kind |-> "bad", addr |-> 0, len |-> 0]}

\* the addresses of a CIDR block share its first len bits
Power2(n) == IF n = 0 THEN 1 ELSE IF n = 1 THEN 2 ELSE 4
CidrContains(base, len, ip) == ip \div Power2(2 - len) = base \div Power2(2 - len)

\* utils.FilterIP: (res, err) for an entry and the client address
FilterIP(filter, ip) ==
  IF filter.kind = "bad" THEN [res |-> FALSE, err |-> TRUE]
  ELSE IF filter.kind = "cidr"
       THEN [res |-> CidrContains(filter.addr, filter.len, ip), err |-> FALSE]
       ELSE [res |-> filter.addr = ip, err |-> FALSE]

\* a scan that an entry which does not parse brings to an end
RECURSIVE MatchesAny_StopOnError(_, _, _)
MatchesAny_StopOnError(list, ip, k) ==
  IF k > Len(list) THEN FALSE
  ELSE IF FilterIP(list[k], ip).err THEN FALSE
  ELSE IF FilterIP(list[k], ip).res THEN TRUE
  ELSE MatchesAny_StopOnError(list, ip, k + 1)

\* lines 460-470 and 473-483: the loop over a list from entry k on; an entry
\* with an error is skipped (continue), the first match ends the loop
RECURSIVE MatchesAny(_, _, _)
MatchesAny(list, ip, k) ==
  IF k > Len(list) THEN FALSE
  ELSE IF FilterIP(list[k], ip).err THEN MatchesAny(list, ip, k + 1)
  ELSE IF FilterIP(list[k], ip).res THEN TRUE
  ELSE MatchesAny(list, ip, k + 1)

\* a check that looks at the allow list before the block list
CheckIPResult_AllowFirst(ip, block, allow) ==
  IF MatchesAny(allow, ip, 1) THEN TRUE
  ELSE IF MatchesAny(block, ip, 1) THEN FALSE
  ELSE IF Len(allow) > 0 THEN FALSE
  ELSE TRUE

\* lines 459-493
CheckIPResult(ip, block, allow) ==
  IF MatchesAny(block, ip, 1) THEN FALSE
  ELSE IF MatchesAny(allow, ip, 1) THEN TRUE
  ELSE IF Len(allow) > 0 THEN FALSE
  ELSE TRUE

\* lines 455-494
CheckIP ==
  /\ request.kind = "ip"
  /\ ret' = [op |-> "CheckIP",
             allowed |-> CheckIPResult(request.ip, request.Block, request.Allow)]
  /\ PolicyFrame

\* the request URIs and the allowed-URI patterns of the labels
URIs == {"", "/app", "/health", "/api/health"}
Patterns == {"", "^/api", "health", ".*", "("}

\* regexp.Compile: whether the pattern is a regular expression
Compiles(pattern) == pattern # "("

\* regexp.MatchString: the URIs in which a compiled pattern finds a match
MatchString(pattern, uri) ==
  CASE pattern = "^/api" -> uri \in {"/api/health"}
    [] pattern = "health" -> uri \in {"/health", "/api/health"}
    [] pattern = ".*" -> TRUE
    [] pattern = "" -> TRUE
    [] OTHER -> FALSE

\* a check that lets a request through when the pattern does not compile
AuthEnabledResult_FailOpen(allowed, uri) ==
  IF allowed = "" THEN [enabled |-> TRUE, err |-> FALSE]
  ELSE IF ~Compiles(allowed) THEN [enabled |-> FALSE, err |-> TRUE]
  ELSE IF MatchString(allowed, uri) THEN [enabled |-> FALSE, err |-> FALSE]
  ELSE [enabled |-> TRUE, err |-> FALSE]

\* lines 415-436: (auth enabled, error)
AuthEnabledResult(allowed, uri) ==
  IF allowed = "" THEN [enabled |-> TRUE, err |-> FALSE]
  ELSE IF ~Compiles(allowed) THEN [enabled |-> TRUE, err |-> TRUE]
  ELSE IF MatchString(allowed, uri) THEN [enabled |-> FALSE, err |-> FALSE]
  ELSE [enabled |-> TRUE, err |-> FALSE]

\* lines 410-437
AuthEnabled ==
  /\ request.kind = "uri"
  /\ ret' = [op |-> "AuthEnabled",
             enabled |-> AuthEnabledResult(request.Allowed, request.uri).enabled,
             err |-> AuthEnabledResult(request.Allowed, request.uri).err]
  /\ PolicyFrame

\* whitelists and group lists are strings, here sequences of characters
Chars == {"a", "b", ","}
NameChars == {"a", "b"}

\* strings.Split(s, ","): the items between the commas, in order; the empty
\* string has one empty item
RECURSIVE SplitFrom(_, _, _, _)
SplitFrom(s, k, item, items) ==
  IF k > Len(s) THEN Append(items, item)
  ELSE IF s[k] = "," THEN SplitFrom(s, k + 1, <<>>, Append(items, item))
  ELSE SplitFrom(s, k + 1, Append(item, s[k]), items)

Split(s) == SplitFrom(s, 1, <<>>, <<>>)

\* utils.CheckWhitelist: an empty whitelist allows everything, otherwise the
\* string has to equal one of the comma-separated entries
CheckWhitelist(whitelist, str) ==
  IF whitelist = <<>> THEN TRUE
  ELSE \E i \in 1 .. Len(Split(whitelist)) : Split(whitelist)[i] = str

\* a check that asks for every group of the identity to be a required group
OAuthGroupResult_AllGroups(groups, provider, oauthGroups) ==
  IF groups = <<>> THEN TRUE
  ELSE IF provider # "generic" THEN TRUE
  ELSE \A i \in 1 .. Len(Split(oauthGroups)) :
         CheckWhitelist(groups, Split(oauthGroups)[i])

\* lines 381-407
OAuthGroupResult(groups, provider, oauthGroups) ==
  IF groups = <<>> THEN TRUE
  ELSE IF provider # "generic" THEN TRUE
  ELSE \E i \in 1 .. Len(Split(oauthGroups)) :
         CheckWhitelist(groups, Split(oauthGroups)[i])

\* lines 380-408
OAuthGroup ==
  /\ request.kind = "group"
  /\ ret' = [op |-> "OAuthGroup",
             allowed |-> OAuthGroupResult(request.Groups, request.Provider,
                                          request.OAuthGroups)]
  /\ PolicyFrame

\* a check that tests the username of an OAuth identity
ResourceAllowedResult_Username(context, labels) ==
  IF context.OAuth THEN CheckWhitelist(labels.Whitelist, context.Username)
  ELSE CheckWhitelist(labels.Users, context.Username)

\* lines 368-377
ResourceAllowedResult(context, labels) ==
  IF context.OAuth THEN CheckWhitelist(labels.Whitelist, context.Email)
  ELSE CheckWhitelist(labels.Users, context.Username)

\* lines 367-378
ResourceAllowed ==
  /\ request.kind = "resource"
  /\ ret' = [op |-> "ResourceAllowed",
             allowed |-> ResourceAllowedResult(request.context, request.labels)]
  /\ PolicyFrame

\* ------------------------------------------------------------------- init
ConfigValues == {-1} \cup (0 .. MaxRetriesCfg)
TimeoutValues == {-1} \cup (0 .. MaxTimeoutCfg)
Searches == {[Username |-> "alice", Type |-> "local"],
             [Username |-> "carol", Type |-> "local"],
             [Username |-> "cn=bob", Type |-> "ldap"],
             [Username |-> "cn=carol", Type |-> "ldap"],
             [Username |-> "bob", Type |-> "oauth"],
             EmptySearch}

\* NewAuth, lines 29-49: an empty attempt table; the configuration is fixed
InitState ==
  /\ now = 0
  /\ LoginAttempts = [i \in Identifiers |-> NoAttempt]
  /\ LoginMutex = Unlocked
  /\ ldapBound = BindDN
  /\ pc = [p \in Procs |-> "idle"]
  /\ frame = [p \in Procs |-> NoFrame]
  /\ login = [p \in Procs |-> NoLogin]
  /\ ret = NoRet
  /\ failures = [i \in Identifiers |-> 0]
  /\ failedAt = [i \in Identifiers |-> ZeroTime]
  /\ session = EmptyValues
  /\ created = NoCreated
  /\ request = NoRequest

\* the rate limiter, called directly, under every configuration of the limiter
InitRate ==
  /\ Config \in [LoginMaxRetries : ConfigValues, LoginTimeout : TimeoutValues,
                 SessionExpiry : {1}, Users : {<<AliceUser>>}]
  /\ LDAP = "nil"
  /\ InitState

NextRate ==
  \/ Tick
  \/ \E p \in Procs, i \in Identifiers : IsAccountLocked(p, i) /\ Direct(p)
  \/ \E p \in Procs, i \in Identifiers, s \in BOOLEAN :
       RecordLoginAttempt(p, i, s) /\ Direct(p)
  \/ \E p \in Procs : RecordLoginAttemptIncrement(p) /\ Direct(p)

SpecRate == InitRate /\ [][NextRate]_vars

\* the credential store, called directly, with and without local users and LDAP
InitCred ==
  /\ Config \in [LoginMaxRetries : {0}, LoginTimeout : {0},
                 SessionExpiry : {1}, Users : {<<>>, <<AliceUser>>}]
  /\ LDAP \in {"nil", "client"}
  /\ InitState

NextCred ==
  \/ Tick
  \/ \E p \in Procs, u \in Usernames : SearchUser(p, u) /\ Direct(p)
  \/ \E p \in Procs, s \in Searches, w \in Passwords : VerifyUser(p, s, w) /\ Direct(p)
  \/ \E p \in Procs : VerifyUserRebind(p) /\ Direct(p)

SpecCred == InitCred /\ [][NextCred]_vars

\* the login handler: every request is a login attempt
InitLogin ==
  /\ Config \in [LoginMaxRetries : {1, 2}, LoginTimeout : {1},
                 SessionExpiry : {1}, Users : {<<>>, <<AliceUser>>}]
  /\ LDAP \in {"nil", "client"}
  /\ InitState

NextLogin ==
  \/ Tick
  \/ \E p \in Procs, u \in LoginNames, w \in LoginPasswords : LoginHandler(p, u, w)
  \/ \E p \in Procs : LoginSearch(p)
  \/ \E p \in Procs : LoginVerify(p)
  \/ \E p \in Procs : LoginVerifyRebind(p)
  \/ \E p \in Procs : LoginRecord(p)
  \/ \E p \in Procs : LoginRecordIncrement(p)
  \/ \E p \in Procs : LoginRespond(p)

SpecLogin == InitLogin /\ [][NextLogin]_vars

\* session durations: a few seconds, and one longer than the hour of line 256
SessionExpiryValues == (1 .. MaxSessionCfg) \cup {2 * TotpExpiry}

\* the session cookie of one client
InitSession ==
  /\ Config \in [LoginMaxRetries : {0}, LoginTimeout : {0},
                 SessionExpiry : SessionExpiryValues, Users : {<<AliceUser>>}]
  /\ LDAP = "nil"
  /\ InitState

NextSession ==
  \/ Tick
  \/ \E data \in SessionData : CreateSessionCookie(data)
  \/ GetSessionCookie
  \/ DeleteSessionCookie
  \/ PresentUndecodable

SpecSession == InitSession /\ [][NextSession]_vars

\* the access policy: one check on a request drawn from the bounded inputs
Lists == UNION {[1 .. n -> FilterEntries] : n \in 0 .. MaxList}
IPRequests == [kind : {"ip"}, ip : Addresses, Block : Lists, Allow : Lists]
URIRequests == [kind : {"uri"}, Allowed : Patterns, uri : URIs]
Strings == UNION {[1 .. n -> Chars] : n \in 0 .. MaxStr}
Names == UNION {[1 .. n -> NameChars] : n \in 0 .. MaxName}
Providers == {"generic", "github"}
GroupRequests ==
  [kind : {"group"}, Groups : Strings, Provider : Providers, OAuthGroups : Strings]
ResourceRequests ==
  [kind : {"resource"},
   context : [OAuth : BOOLEAN, Email : Names, Username : Names],
   labels : [Whitelist : Strings, Users : Strings]]

InitPolicy ==
  /\ Config \in [LoginMaxRetries : {0}, LoginTimeout : {0},
                 SessionExpiry : {1}, Users : {<<AliceUser>>}]
  /\ LDAP = "nil"
  /\ now = 0
  /\ LoginAttempts = [i \in Identifiers |-> NoAttempt]
  /\ LoginMutex = Unlocked
  /\ ldapBound = BindDN
  /\ pc = [p \in Procs |-> "idle"]
  /\ frame = [p \in Procs |-> NoFrame]
  /\ login = [p \in Procs |-> NoLogin]
  /\ ret = NoRet
  /\ failures = [i \in Identifiers |-> 0]
  /\ failedAt = [i \in Identifiers |-> ZeroTime]
  /\ session = EmptyValues
  /\ created = NoCreated
  /\ request \in IPRequests \cup URIRequests \cup GroupRequests \cup ResourceRequests

NextPolicy ==
  \/ CheckIP
  \/ AuthEnabled
  \/ OAuthGroup
  \/ ResourceAllowed

SpecPolicy == InitPolicy /\ [][NextPolicy]_vars

\* ================================================================= claims

\* C1: with rate limiting enabled, once maxRetries failures have been recorded
\* for an identifier with no success in between, every IsAccountLocked call made
\* before (time of the last failure + lockout window) returns locked = true
\* with remaining seconds > 0.
C1_LockedWithRemaining ==
  (/\ ret.op = "IsAccountLocked"
   /\ Config.LoginMaxRetries > 0 /\ Config.LoginTimeout > 0
   /\ failures[ret.identifier] >= Config.LoginMaxRetries
   /\ now < failedAt[ret.identifier] + Config.LoginTimeout * TicksPerSec)
  => (ret.locked /\ ret.remaining > 0)

\* C2: with rate limiting enabled, a RecordLoginAttempt(identifier, true) call
\* returns with FailedAttempts = 0 and LockedUntil cleared, whatever record it
\* found, and an IsAccountLocked call made while no failure has been recorded
\* since returns (false, 0).
C2_SuccessResets ==
  /\ (/\ ret.op = "RecordLoginAttempt" /\ ret.success
      /\ Config.LoginMaxRetries > 0 /\ Config.LoginTimeout > 0)
     => /\ LoginAttempts[ret.identifier] # NoAttempt
        /\ LoginAttempts[ret.identifier].FailedAttempts = 0
        /\ LoginAttempts[ret.identifier].LockedUntil = ZeroTime
  /\ (ret.op = "IsAccountLocked" /\ failures[ret.identifier] = 0)
     => (~ret.locked /\ ret.remaining = 0)

\* a success was recorded for an identifier whose lock was in force
C2_Witness ==
  /\ ret.op = "RecordLoginAttempt" /\ ret.success
  /\ ret.found /\ ret.foundLocked

\* C3: when rate limiting is disabled (maxRetries <= 0 or window <= 0) the
\* attempt table stays as it was built, without any record, whatever calls are
\* made, and every IsAccountLocked call returns (false, 0).
C3_DisabledIsNoOp ==
  (Config.LoginMaxRetries <= 0 \/ Config.LoginTimeout <= 0)
  => /\ LoginAttempts = [i \in Identifiers |-> NoAttempt]
     /\ LoginMutex = Unlocked
     /\ (ret.op = "IsAccountLocked" => (~ret.locked /\ ret.remaining = 0))

\* a failure was recorded while only the window disables the limiter
C3_Witness ==
  /\ Config.LoginMaxRetries > 0 /\ Config.LoginTimeout <= 0
  /\ ret.op = "RecordLoginAttempt" /\ ~ret.success

\* C4: under every interleaving, the failed count of an identifier is the number
\* of failures recorded for it since the last success (no update is lost), and
\* once that number has reached maxRetries the identifier's lock runs until at
\* least the time of the last failure + lockout window.
C4_AtomicCount ==
  \A i \in Identifiers :
    /\ LoginAttempts[i] = NoAttempt => failures[i] = 0
    /\ LoginAttempts[i] # NoAttempt =>
         /\ LoginAttempts[i].FailedAttempts = failures[i]
         /\ (/\ Config.LoginMaxRetries > 0 /\ Config.LoginTimeout > 0
             /\ failures[i] >= Config.LoginMaxRetries)
            => LoginAttempts[i].LockedUntil >=
                 failedAt[i] + Config.LoginTimeout * TicksPerSec

\* a request holds the mutex inside a failing call for an identifier that
\* another failure has already been counted for, and the other request is idle
C4_Witness ==
  \E p \in Procs :
    /\ pc[p] = "increment"
    /\ LoginMutex = p
    /\ failures[frame[p].identifier] >= 1
    /\ \E q \in Procs \ {p} : pc[q] = "idle"

\* C5: a login attempt that arrives while the identifier's lock is in force
\* (lockedUntil > now) is refused, also with the correct password.
C5_LockedLoginFails ==
  (ret.op = "LoginHandler" /\ ret.arrivedLocked) => ~ret.granted

\* the local user alice was refused with her own password while locked
C5_Witness ==
  /\ ret.op = "LoginHandler"
  /\ ret.arrivedLocked
  /\ ~ret.granted
  /\ Config.Users # <<>>
  /\ ret.username = "alice"
  /\ ret.password = "local-pw"

\* C6: every LDAP verification returns after a last bind made with the service
\* account, whatever the outcome of the user bind.
C6_LastBindIsService ==
  (ret.op = "VerifyUser" /\ ret.search.Type = "ldap" /\ LDAP # "nil")
  => /\ Len(ret.binds) > 0
     /\ ret.binds[Len(ret.binds)].dn = BindDN

\* C7: no directory search executes while the shared client is bound as a
\* user identity.
C7_SearchAsService ==
  (ret.op = "SearchUser" /\ ret.queried) => ret.boundAs \notin UserDNs

\* C8: an LDAP verification returns true if and only if the bind as the
\* resolved identifier succeeded and the following re-bind as the service
\* account succeeded.
C8_VerifyIffBothBinds ==
  (ret.op = "VerifyUser" /\ ret.search.Type = "ldap")
  => (ret.result <=>
        /\ Len(ret.binds) = 2
        /\ ret.binds[1].dn = ret.search.Username /\ ret.binds[1].ok
        /\ ret.binds[2].dn = BindDN /\ ret.binds[2].ok)

\* the user bind succeeded, the re-bind failed, and verification returned false
C8_Witness ==
  /\ ret.op = "VerifyUser" /\ ret.search.Type = "ldap"
  /\ Len(ret.binds) = 2
  /\ ret.binds[1].ok /\ ~ret.binds[2].ok
  /\ ~ret.result

\* C9: GetSessionCookie returns a non-empty session only while the clock is
\* strictly before the stored expiry.
C9_NoExpiredSession ==
  (ret.op = "GetSessionCookie" /\ ~ret.empty) => now < ret.expiry * TicksPerSec

\* C10: while the clock is before the expiry stored by the last
\* CreateSessionCookie, GetSessionCookie returns the record passed to that
\* call, whatever session was stored before it.
C10_RoundTrip ==
  (/\ ret.op = "GetSessionCookie"
   /\ created.exists
   /\ now < created.expiry * TicksPerSec)
  => (~ret.empty /\ ret.cookie = created.data)

\* a session created over the session of another user was read back
C10_Witness ==
  /\ ret.op = "GetSessionCookie" /\ ~ret.empty
  /\ created.exists /\ created.replaced
  /\ ret.cookie = created.data
  /\ ret.cookie.OAuthGroups # ""

\* C11: CreateSessionCookie stores as expiry the second of creation + 3600 when
\* TotpPending is true, whatever the configured session duration, and the
\* second of creation + Config.SessionExpiry when it is false.
C11_ExpiryByTotp ==
  (ret.op = "CreateSessionCookie" /\ ~ret.err)
  => session["expiry"] =
       (now \div TicksPerSec) + (IF ret.data.TotpPending THEN 3600
                                                         ELSE Config.SessionExpiry)

\* a pending session was created under a session duration longer than one hour
C11_Witness ==
  /\ ret.op = "CreateSessionCookie" /\ ~ret.err
  /\ ret.data.TotpPending
  /\ Config.SessionExpiry > 3600
  /\ now > 0
  /\ session["expiry"] = (now \div TicksPerSec) + 3600

\* C12: when the stored cookie cannot be decoded, GetSessionCookie returns the
\* empty cookie and no error.
C12_UnreadableIsNoError ==
  (ret.op = "GetSessionCookie" /\ ret.unreadable) => (ret.empty /\ ~ret.err)

\* C13: CheckIP denies a client address that a parseable entry of the block
\* list matches, also when an entry of the allow list matches it.
C13_BlockWins ==
  (/\ ret.op = "CheckIP"
   /\ \E k \in 1 .. Len(request.Block) :
        /\ ~FilterIP(request.Block[k], request.ip).err
        /\ FilterIP(request.Block[k], request.ip).res)
  => ~ret.allowed

\* an address matched by both lists, after an unparseable block entry, is denied
C13_Witness ==
  /\ ret.op = "CheckIP" /\ ~ret.allowed
  /\ Len(request.Block) = 2
  /\ request.Block[1].kind = "bad"
  /\ FilterIP(request.Block[2], request.ip).res
  /\ \E k \in 1 .. Len(request.Allow) : FilterIP(request.Allow[k], request.ip).res

\* C14: when no block entry matches the client address, CheckIP allows it if
\* and only if the allow list is empty or one of its parseable entries matches
\* it; entries that do not parse are skipped.
C14_AllowList ==
  (/\ ret.op = "CheckIP"
   /\ ~\E k \in 1 .. Len(request.Block) :
         /\ ~FilterIP(request.Block[k], request.ip).err
         /\ FilterIP(request.Block[k], request.ip).res)
  => (ret.allowed <=>
        \/ Len(request.Allow) = 0
        \/ \E k \in 1 .. Len(request.Allow) :
             /\ ~FilterIP(request.Allow[k], request.ip).err
             /\ FilterIP(request.Allow[k], request.ip).res)

\* an address is allowed by the entry that follows an unparseable allow entry
C14_Witness ==
  /\ ret.op = "CheckIP" /\ ret.allowed
  /\ Len(request.Allow) = 2
  /\ request.Allow[1].kind = "bad"
  /\ request.Allow[2].kind = "cidr"
  /\ Len(request.Block) > 0

\* the entries of a comma-separated list: its maximal comma-free substrings
Segments(s) ==
  {SubSeq(s, i, j) : <<i, j>> \in
     {x \in (1 .. Len(s) + 1) \X (0 .. Len(s)) :
        /\ x[1] <= x[2] + 1
        /\ \A k \in x[1] .. x[2] : s[k] # ","
        /\ (x[1] = 1 \/ s[x[1] - 1] = ",")
        /\ (x[2] = Len(s) \/ s[x[2] + 1] = ",")}}

\* C15: AuthEnabled skips authentication only when the allowed pattern is
\* non-empty, compiles and matches the request URI; an empty pattern requires
\* authentication without error, a pattern that does not compile requires
\* authentication and returns the error.
C15_FailSafe ==
  ret.op = "AuthEnabled" =>
    /\ ~ret.enabled <=> (/\ request.Allowed # ""
                          /\ Compiles(request.Allowed)
                          /\ MatchString(request.Allowed, request.uri))
    /\ request.Allowed = "" => (ret.enabled /\ ~ret.err)
    /\ ret.err <=> (request.Allowed # "" /\ ~Compiles(request.Allowed))

\* a pattern that does not compile has been answered
C15_Witness ==
  /\ ret.op = "AuthEnabled" /\ ret.enabled /\ ret.err
  /\ ~Compiles(request.Allowed)

\* C16: OAuthGroup returns true when the required groups are empty and when
\* the provider is not the generic one; otherwise it returns true if and only
\* if one of the comma-separated groups of the identity is a required group.
C16_AnyGroup ==
  ret.op = "OAuthGroup" =>
    (ret.allowed <=>
       \/ request.Groups = <<>>
       \/ request.Provider # "generic"
       \/ \E g \in Segments(request.OAuthGroups) : g \in Segments(request.Groups))

\* an identity with two groups, one of them required, is let through
C16_Witness ==
  /\ ret.op = "OAuthGroup" /\ ret.allowed
  /\ request.Provider = "generic" /\ request.Groups # <<>>
  /\ \E g, h \in Segments(request.OAuthGroups) :
       g \in Segments(request.Groups) /\ h \notin Segments(request.Groups)

\* C17: ResourceAllowed tests the email of an OAuth identity against the OAuth
\* whitelist and the username of any other identity against the user
\* whitelist, and nothing else.
C17_FieldByKind ==
  ret.op = "ResourceAllowed" =>
    IF request.context.OAuth
    THEN ret.allowed <=> (\/ request.labels.Whitelist = <<>>
                          \/ request.context.Email \in Segments(request.labels.Whitelist))
    ELSE ret.allowed <=> (\/ request.labels.Users = <<>>
                          \/ request.context.Username \in Segments(request.labels.Users))

\* an OAuth identity is refused by its email although its username is in both
\* whitelists
C17_Witness ==
  /\ ret.op = "ResourceAllowed" /\ ~ret.allowed
  /\ request.context.OAuth
  /\ request.context.Username # <<>>
  /\ request.context.Username \in Segments(request.labels.Whitelist)
  /\ request.context.Username \in Segments(request.labels.Users)

\* C18: SearchUser answers a username of the local list with kind local and
\* the username, without asking the directory; the directory is asked only when
\* there is no local match and a client is configured; a failed directory search
\* and the absence of both give the empty result, and VerifyUser returns false
\* on the empty result.
C18_LocalFirst ==
  /\ ret.op = "SearchUser" =>
       LET local == \E k \in 1 .. Len(Config.Users) :
                      Config.Users[k].Username = ret.username
       IN /\ local => (/\ ret.result = [Username |-> ret.username, Type |-> "local"]
                       /\ ~ret.queried)
          /\ ret.queried <=> (~local /\ LDAP # "nil")
          /\ (~local /\ (LDAP = "nil" \/ ret.err)) => ret.result = EmptySearch
          /\ (ret.queried /\ ~ret.err) => ret.result.Type = "ldap"
  /\ (ret.op = "VerifyUser" /\ ret.search = EmptySearch) => ~ret.result

\* a name that is both a local user and a directory entry is found locally
C18_Witness ==
  /\ ret.op = "SearchUser" /\ ret.username \in DirectoryEntries
  /\ LDAP # "nil"
  /\ \E k \in 1 .. Len(Config.Users) : Config.Users[k].Username = ret.username
  /\ ret.result.Type = "local" /\ ~ret.queried

\* a step of RecordLoginAttempt made for identifier i
C19_RecordStepFor(i) ==
  \/ ret'.op = "RecordLoginAttempt" /\ ret'.identifier = i
  \/ \E p \in Procs : /\ pc[p] = "idle" /\ pc'[p] = "increment"
                       /\ frame'[p].identifier = i

\* C19: the record of an identifier changes only in a RecordLoginAttempt made
\* for that identifier, and IsAccountLocked reports an identifier locked only
\* on that identifier's own failures and its own lock.
C19_Independent ==
  /\ [][\A i \in Identifiers :
          (LoginAttempts'[i] # LoginAttempts[i]) => C19_RecordStepFor(i)]_vars
  /\ [](ret.op = "IsAccountLocked" =>
          (ret.locked <=>
             /\ Config.LoginMaxRetries > 0 /\ Config.LoginTimeout > 0
             /\ LoginAttempts[ret.identifier] # NoAttempt
             /\ LoginAttempts[ret.identifier].LockedUntil > now
             /\ failures[ret.identifier] >= Config.LoginMaxRetries))

\* one identifier is locked and IsAccountLocked answers not locked for another
\* identifier that has a failure of its own recorded
C19_Witness ==
  /\ ret.op = "IsAccountLocked" /\ ~ret.locked
  /\ \E j \in Identifiers \ {ret.identifier} :
       /\ LoginAttempts[j] # NoAttempt
       /\ LoginAttempts[j].LockedUntil > now
  /\ failures[ret.identifier] > 0

\* C20: the failure count goes down only by a successful attempt, and every
\* failed RecordLoginAttempt that brings the count to LoginMaxRetries or above
\* sets LockedUntil to now plus LoginTimeout, whether the lock was in force,
\* had expired or was never set.
C20_FailureLocksAgain ==
  /\ [][\A i \in Identifiers :
          (/\ LoginAttempts[i] # NoAttempt
           /\ LoginAttempts'[i].FailedAttempts < LoginAttempts[i].FailedAttempts)
          => (/\ ret'.op = "RecordLoginAttempt"
              /\ ret'.identifier = i /\ ret'.success)]_vars
  /\ []((/\ ret.op = "RecordLoginAttempt" /\ ~ret.success
          /\ Config.LoginMaxRetries > 0 /\ Config.LoginTimeout > 0
          /\ failures[ret.identifier] >= Config.LoginMaxRetries)
         => LoginAttempts[ret.identifier].LockedUntil
              = now + Config.LoginTimeout * TicksPerSec)

\* a failure that found the lock expired, with no success since, locks again
C20_Witness ==
  /\ ret.op = "RecordLoginAttempt" /\ ~ret.success
  /\ ret.found /\ ~ret.foundLocked
  /\ Config.LoginMaxRetries > 0 /\ Config.LoginTimeout > 0
  /\ failures[ret.identifier] > Config.LoginMaxRetries
  /\ LoginAttempts[ret.identifier].LockedUntil = now + Config.LoginTimeout * TicksPerSec

====
